---- MODULE Spec2Model ----
(***************************************************************************)
(* Model of the mavlogs flight-log tools:                                  *)
(*   kml.py      DroneKMLGenerator and the batch runner process_bin_files  *)
(*   summary.py  analyze_log, extract_log_id and process_directory         *)
(*                                                                         *)
(* Conventions                                                             *)
(*   - A decoded message (msg.to_dict()) is a TLA+ record: its DOMAIN is   *)
(*     the set of keys the dict carries.                                   *)
(*   - 'timestamp' is TimeUS / 1e6 in the code.  The model keeps it in     *)
(*     integer microseconds, and the tolerance 1.0 s is 1000000.  The      *)
(*     TimeUS values fed to the model are ones on which the float          *)
(*     subtraction and comparison of the code agree with the exact ones.   *)
(*   - A DataFrame is the sequence of its rows (1-based; pandas' row k is  *)
(*     index k+1 here).                                                    *)
(*   - Voltages, currents and vibration levels are kept in tenths of the   *)
(*     unit, so that 10.5 V is 105.                                        *)
(***************************************************************************)
EXTENDS Integers, Sequences, FiniteSets, TLC

VARIABLES
    \* ---- kml.py: process_bin_files / DroneKMLGenerator ----
    fileIdx,        \* position of the for loop over bin_files (1-based)
    pc,             \* where process_bin_files / parse_flight_data stands
    opsLeft,        \* calls the decoder will still answer (model bound)
    stream,         \* messages recv_match() has returned so far, while the file is read
    gps_data,       \* list gps_data
    attitude_data,  \* list attitude_data
    gps_df,         \* gps_df after sort_values
    attitude_df,    \* attitude_df after sort_values
    row,            \* position of the fusion loop in gps_df (1-based)
    combined_data,  \* list combined_data
    flight_data,    \* what parse_flight_data returned
    document,       \* children of the generator's <Document>
    kml_files,      \* KML files on disk: file index -> saved document
    outcome,        \* per finished file: what the runner reported
    \* ---- kml.py: _create_fpv_tour on a fused series of a given length ----
    tourN,          \* len(df)
    playlist,       \* children of the tour's gx:Playlist
    camera_points,  \* the "FPV Camera Points" statistic of process_bin_files
    tpc,
    \* ---- summary.py: process_directory / analyze_log ----
    csvIdx,         \* position of the for loop over csv_files (1-based)
    spc,            \* where process_directory / analyze_log stands
    df,             \* the DataFrame read from the current CSV
    flags,          \* the anomaly flag table
    written,        \* files analyze_log has written for the current CSV
    reports,        \* per CSV handled: what happened
    \* ---- output naming of the two batch runners ----
    npc,
    input_dir,      \* process_directory's input_dir
    stemA, stemB,   \* two distinct files of one directory (names without extension)
    outA, outB      \* the output locations computed for them

vars == <<fileIdx, pc, opsLeft, stream, gps_data, attitude_data, gps_df,
          attitude_df, row, combined_data, flight_data, document, kml_files, outcome,
          tourN, playlist, camera_points, tpc,
          csvIdx, spc, df, flags, written, reports,
          npc, input_dir, stemA, stemB, outA, outB>>

kmlVars == <<fileIdx, pc, opsLeft, stream, gps_data, attitude_data, gps_df,
             attitude_df, row, combined_data, flight_data, document, kml_files, outcome>>
tourVars == <<tourN, playlist, camera_points, tpc>>
sumVars == <<csvIdx, spc, df, flags, written, reports>>
nameVars == <<npc, input_dir, stemA, stemB, outA, outB>>

----------------------------------------------------------------------------
(* Bounds of the model *)

\* calls the decoder answers over the whole batch: one to open each BIN file
\* (mavlink_connection), one per message recv_match returns
MaxOps == 5
\* longest fused series handed to _create_fpv_tour
MaxN == 1000
\* CSV files process_directory finds
MaxCsv == 2
\* sample rows of a CSV
MaxRows == 2
\* name pieces a file name is made of
MaxPieces == 3

----------------------------------------------------------------------------
(* Generic helpers *)

Abs(x) == IF x < 0 THEN -x ELSE x

Max2(a, b) == IF a >= b THEN a ELSE b

Min2(a, b) == IF a <= b THEN a ELSE b

\* dict.get(key, default)
Get(d, key, default) == IF key \in DOMAIN d THEN d[key] ELSE default

\* times value v occurs in sequence s
Count(s, v) == Cardinality({k \in 1..Len(s) : s[k] = v})

\* a missing value (NaN) of a numeric column: a value no sample takes
NaN == -999999999

----------------------------------------------------------------------------
(* kml.py: the decoder's messages *)

\* `time_diffs.iloc[closest_idx] < 1.0`, in microseconds
Tolerance == 1000000

GpsTimes == {0, 1000000, 2000000}

AttTimes == {400000, 500000, 1000000, 1500000}

GpsMsg(t, lat, lng) ==
    [mavpackettype |-> "GPS", TimeUS |-> t, Lat |-> lat, Lng |-> lng, Alt |-> 120,
     Spd |-> 3, GCrs |-> 45, VZ |-> 1]

AttMsg(t) ==
    [mavpackettype |-> "AHR2", TimeUS |-> t,
     Roll  |-> CASE t = 400000 -> 5  [] t = 500000 -> -5  [] t = 1000000 -> 0    [] OTHER -> 15,
     Pitch |-> CASE t = 400000 -> 0  [] t = 500000 -> 200 [] t = 1000000 -> -200 [] OTHER -> 10,
     Yaw   |-> CASE t = 400000 -> -30 [] t = 500000 -> 400 [] t = 1000000 -> 90  [] OTHER -> 180]

\* what log.recv_match().to_dict() can be: good and malformed GPS and AHR2
\* records, and a record of another kind
Messages ==
    {GpsMsg(t, 47, 8) : t \in GpsTimes}
    \cup {GpsMsg(0, 0, 0), GpsMsg(0, 47, 0)}
    \cup {[mavpackettype |-> "GPS", TimeUS |-> 0, Lat |-> 47, Lng |-> 8]}
    \cup {AttMsg(t) : t \in AttTimes}
    \cup {[mavpackettype |-> "AHR2", TimeUS |-> 0, Roll |-> 1, Pitch |-> 2]}
    \cup {[mavpackettype |-> "ATT", TimeUS |-> 0, Roll |-> 1, Pitch |-> 2, Yaw |-> 3]}

----------------------------------------------------------------------------
(* kml.py: parse_flight_data, demultiplexing (lines 89-120) *)

\* a demultiplexer that keeps a GPS record when either coordinate is nonzero
GpsAccepted_EitherNonzero(m) ==
    /\ Get(m, "mavpackettype", "") = "GPS"
    /\ {"Lat", "Lng", "Alt"} \subseteq DOMAIN m
    /\ (m.Lat # 0 \/ m.Lng # 0)

\* line 97-99: the record is appended to gps_data
GpsAccepted(m) ==
    /\ Get(m, "mavpackettype", "") = "GPS"
    /\ {"Lat", "Lng", "Alt"} \subseteq DOMAIN m
    /\ m.Lat # 0 /\ m.Lng # 0

\* line 111-112: the record is appended to attitude_data
AttAccepted(m) ==
    /\ Get(m, "mavpackettype", "") # "GPS"
    /\ Get(m, "mavpackettype", "") = "AHR2"
    /\ {"Roll", "Pitch", "Yaw"} \subseteq DOMAIN m

\* lines 100-108
GpsRow(m) ==
    [timestamp |-> Get(m, "TimeUS", 0), lat |-> m.Lat, lng |-> m.Lng, alt |-> m.Alt,
     spd |-> Get(m, "Spd", 0), gcrs |-> Get(m, "GCrs", 0), vz |-> Get(m, "VZ", 0)]

\* lines 113-118
AttRow(m) ==
    [timestamp |-> Get(m, "TimeUS", 0), roll |-> m.Roll, pitch |-> m.Pitch, yaw |-> m.Yaw]

\* the rows the code builds from a sequence of accepted records
GpsRows(s) == [k \in 1..Len(s) |-> GpsRow(s[k])]

AttRows(s) == [k \in 1..Len(s) |-> AttRow(s[k])]

----------------------------------------------------------------------------
(* kml.py: parse_flight_data, sorting and fusion (lines 122-169) *)

\* an emptiness check that forgets the attitude DataFrame
MissingStream_GpsOnly(g, a) == g = <<>>

\* lines 126-132: one of the two DataFrames is empty
MissingStream(g, a) == g = <<>> \/ a = <<>>

\* insert r into the sorted sequence s after every row whose timestamp is <= r's
RECURSIVE InsertSorted(_, _)
InsertSorted(s, r) ==
    IF s = <<>> THEN <<r>>
    ELSE IF Head(s).timestamp <= r.timestamp
         THEN <<Head(s)>> \o InsertSorted(Tail(s), r)
         ELSE <<r>> \o s

\* a sort step that leaves the rows in the order the decoder delivered them
SortValues_Unsorted(s) == s

\* df.sort_values('timestamp').reset_index(drop=True).  numpy's default sort is an
\* insertion sort on inputs of this size, hence stable.
RECURSIVE SortValues(_)
SortValues(s) ==
    IF s = <<>> THEN <<>>
    ELSE InsertSorted(SortValues(SubSeq(s, 1, Len(s) - 1)), s[Len(s)])

\* time differences taken without the absolute value
TimeDiffs_Signed(att, gps_time) == [k \in 1..Len(att) |-> att[k].timestamp - gps_time]

\* line 145: np.abs(attitude_df['timestamp'] - gps_time)
TimeDiffs(att, gps_time) == [k \in 1..Len(att) |-> Abs(att[k].timestamp - gps_time)]

\* an idxmin that returns the last label holding the minimum
IdxMin_Last(s) ==
    CHOOSE k \in 1..Len(s) :
        /\ \A j \in 1..Len(s) : s[k] <= s[j]
        /\ \A j \in (k + 1)..Len(s) : s[j] > s[k]

\* line 146: Series.idxmin(), the first label holding the minimum
IdxMin(s) ==
    CHOOSE k \in 1..Len(s) :
        /\ \A j \in 1..Len(s) : s[k] <= s[j]
        /\ \A j \in 1..(k - 1) : s[j] > s[k]

\* a tolerance test that lets a gap of exactly 1.0 s through
WithinTolerance_Inclusive(d) == d <= Tolerance

\* line 148: the match is accepted
WithinTolerance(d) == d < Tolerance

\* a join that stamps the fused record with the attitude sample's time
FusedRecord_AttitudeTime(gps_row, attitude_row) ==
    [timestamp |-> attitude_row.timestamp, lat |-> gps_row.lat, lng |-> gps_row.lng,
     alt |-> gps_row.alt, spd |-> gps_row.spd, gcrs |-> gps_row.gcrs, vz |-> gps_row.vz,
     roll |-> attitude_row.roll, pitch |-> attitude_row.pitch, yaw |-> attitude_row.yaw]

\* lines 151-162
FusedRecord(gps_row, attitude_row) ==
    [timestamp |-> gps_row.timestamp, lat |-> gps_row.lat, lng |-> gps_row.lng,
     alt |-> gps_row.alt, spd |-> gps_row.spd, gcrs |-> gps_row.gcrs, vz |-> gps_row.vz,
     roll |-> attitude_row.roll, pitch |-> attitude_row.pitch, yaw |-> attitude_row.yaw]

\* lines 142-162: what one iteration of the fusion loop appends to combined_data
FuseRow(gps_row, att) ==
    LET time_diffs == TimeDiffs(att, gps_row.timestamp)
        closest_idx == IdxMin(time_diffs)
    IN  IF WithinTolerance(time_diffs[closest_idx])
        THEN <<FusedRecord(gps_row, att[closest_idx])>>
        ELSE <<>>

\* values a variable holding a DataFrame-or-None can take
Unset == [kind |-> "unset", rows |-> <<>>]
NoneDF == [kind |-> "none", rows |-> <<>>]
DF(rows) == [kind |-> "df", rows |-> rows]

----------------------------------------------------------------------------
(* kml.py: create_kml_structure, create_flight_path, _create_fpv_tour *)

\* lines 36-51: the children of a fresh <Document>
KmlStructure(flight_name) ==
    <<[tag |-> "name", flight |-> flight_name],
      [tag |-> "description", flight |-> flight_name],
      [tag |-> "Style", id |-> "flightPath"]>>

\* line 215
TourStep(n) == Max2(1, n \div 200)

\* a slice that starts at the last row of each group of `step` rows, df.iloc[step-1::step]
SliceStep_GroupEnd(s, step) ==
    LET kept == {k \in 0..(Len(s) - 1) : k % step = step - 1}
    IN  [j \in 1..Cardinality(kept) |-> s[j * step]]

\* line 216: df.iloc[::step], the rows at pandas indices 0, step, 2*step, ... < len(df)
SliceStep(s, step) ==
    LET kept == {k \in 0..(Len(s) - 1) : k % step = 0}
    IN  [j \in 1..Cardinality(kept) |-> s[(j - 1) * step + 1]]

\* a heading normalised with the truncating remainder (math.fmod), which keeps
\* the sign of a negative yaw
CameraHeading_Fmod(r) ==
    LET yaw == IF r.yaw # NaN THEN r.yaw ELSE 0
    IN  IF yaw >= 0 THEN yaw % 360 ELSE -((-yaw) % 360)

\* a tilt that is not clamped
CameraTilt_Unclamped(r) == 90 + (IF r.pitch # NaN THEN r.pitch ELSE 0)

\* lines 249-259 and 307: the camera angles of one retained row.  The camera
\* position (lines 262-273) is trigonometry on floats and is left out.
CameraHeading(r) == (IF r.yaw # NaN THEN r.yaw ELSE 0) % 360

CameraTilt(r) == Max2(0, Min2(180, 90 + (IF r.pitch # NaN THEN r.pitch ELSE 0)))

CameraRoll(r) == -(IF r.roll # NaN THEN r.roll ELSE 0)

\* lines 276-310: the gx:FlyTo of the i-th retained row (i as enumerate gives it)
FlyTo(i, r) ==
    [tag |-> "gx:FlyTo", duration |-> IF i = 0 THEN "3.0" ELSE "0.8",
     heading |-> CameraHeading(r), tilt |-> CameraTilt(r), roll |-> CameraRoll(r),
     i |-> i, timestamp |-> r.timestamp]

\* a pause after every 20th waypoint, the first included
WaitAfter_EveryTwentieth(i) ==
    IF i % 20 = 0 THEN <<[tag |-> "gx:Wait", duration |-> "0.5"]>> ELSE <<>>

\* lines 313-316
WaitAfter(i) ==
    IF i % 20 = 0 /\ i > 0 THEN <<[tag |-> "gx:Wait", duration |-> "0.5"]>> ELSE <<>>

\* lines 246-316: what the loop appends to the playlist for the rows of tour_df
\* with enumerate index lo <= i < hi (split in halves to keep the evaluation shallow)
RECURSIVE PlaylistRange(_, _, _)
PlaylistRange(tour_df, lo, hi) ==
    IF lo >= hi THEN <<>>
    ELSE IF hi = lo + 1 THEN <<FlyTo(lo, tour_df[lo + 1])>> \o WaitAfter(lo)
    ELSE LET mid == (lo + hi) \div 2
         IN  PlaylistRange(tour_df, lo, mid) \o PlaylistRange(tour_df, mid, hi)

\* lines 212-316
FpvTour(rows, flight_name) ==
    [tag |-> "gx:Tour", flight |-> flight_name,
     playlist |-> LET tour_df == SliceStep(rows, TourStep(Len(rows)))
                  IN  PlaylistRange(tour_df, 0, Len(tour_df))]

\* a create_flight_path that builds the tour twice
FlightPath_SecondTour(rows, flight_name) ==
    <<[tag |-> "Folder", flight |-> flight_name,
       coordinates |-> [k \in 1..Len(rows) |-> <<rows[k].lng, rows[k].lat, rows[k].alt>>]],
      FpvTour(rows, flight_name), FpvTour(rows, flight_name)>>

\* lines 170-210: what create_flight_path appends to the document
FlightPath(rows, flight_name) ==
    <<[tag |-> "Folder", flight |-> flight_name,
       coordinates |-> [k \in 1..Len(rows) |-> <<rows[k].lng, rows[k].lat, rows[k].alt>>]],
      FpvTour(rows, flight_name)>>

----------------------------------------------------------------------------
(* kml.py: process_bin_files and parse_flight_data as a state machine *)

Report(status, err) == [status |-> status, err |-> err]

\* lines 336-361: the directory listing; with no BIN file the runner returns.
\* The listing is revealed as the loop consumes it: its length is not fixed
\* beforehand.
Start ==
    /\ pc = "start"
    /\ pc' \in {"done", "loop"}
    /\ UNCHANGED <<fileIdx, opsLeft, stream, gps_data, attitude_data, gps_df,
                   attitude_df, row, combined_data, flight_data, document, kml_files,
                   outcome>>

\* lines 364-375 and 75-79: next file, fresh generator, fresh lists
BeginFile ==
    /\ pc = "loop"
    /\ opsLeft > 0
    /\ opsLeft' = opsLeft - 1
    /\ document' = KmlStructure(fileIdx)
    /\ stream' = <<>>
    /\ gps_data' = <<>>
    /\ attitude_data' = <<>>
    /\ gps_df' = <<>>
    /\ attitude_df' = <<>>
    /\ combined_data' = <<>>
    /\ row' = 1
    /\ flight_data' = Unset
    /\ pc' = "recv"
    /\ UNCHANGED <<fileIdx, kml_files, outcome>>

\* the locals of parse_flight_data and the generator die with the iteration
EndIteration ==
    /\ stream' = <<>>
    /\ gps_data' = <<>>
    /\ attitude_data' = <<>>
    /\ gps_df' = <<>>
    /\ attitude_df' = <<>>
    /\ combined_data' = <<>>
    /\ row' = 1
    /\ flight_data' = Unset
    /\ document' = <<>>
    /\ fileIdx' = fileIdx + 1
    /\ pc' = "loop"

\* lines 423-426: an exception raised inside the try block is reported, and the
\* for loop goes on
Caught(err) ==
    /\ outcome' = Append(outcome, Report("error", err))
    /\ EndIteration
    /\ UNCHANGED <<opsLeft, kml_files>>

\* lines 75 and 90: the decoder fails on the file (unreadable or corrupt log)
DecoderError ==
    /\ pc = "recv"
    /\ Caught("IOError")

\* lines 90-120: one message is received and demultiplexed
RecvMsg ==
    /\ pc = "recv"
    /\ opsLeft > 0
    /\ \E m \in Messages :
         /\ stream' = Append(stream, m)
         /\ gps_data' = IF GpsAccepted(m) THEN Append(gps_data, GpsRow(m)) ELSE gps_data
         /\ attitude_data' = IF AttAccepted(m) THEN Append(attitude_data, AttRow(m))
                                               ELSE attitude_data
    /\ opsLeft' = opsLeft - 1
    /\ UNCHANGED <<fileIdx, pc, gps_df, attitude_df, row, combined_data,
                   flight_data, document, kml_files, outcome>>

\* lines 91-92 and 122-139: end of stream; an empty DataFrame makes
\* parse_flight_data return None, otherwise both are sorted
RecvEnd ==
    /\ pc = "recv"
    /\ stream' = <<>>
    /\ IF MissingStream(gps_data, attitude_data)
       THEN /\ flight_data' = NoneDF
            /\ pc' = "check"
            /\ UNCHANGED <<gps_df, attitude_df>>
       ELSE /\ gps_df' = SortValues(gps_data)
            /\ attitude_df' = SortValues(attitude_data)
            /\ pc' = "fuse"
            /\ UNCHANGED flight_data
    /\ UNCHANGED <<fileIdx, opsLeft, gps_data, attitude_data, row,
                   combined_data, document, kml_files, outcome>>

\* lines 141-162: one iteration of the fusion loop.  idxmin of an empty Series
\* raises ValueError.
FuseStep ==
    /\ pc = "fuse"
    /\ row <= Len(gps_df)
    /\ IF attitude_df = <<>>
       THEN Caught("ValueError")
       ELSE /\ combined_data' = combined_data \o FuseRow(gps_df[row], attitude_df)
            /\ row' = row + 1
            /\ UNCHANGED <<fileIdx, pc, opsLeft, stream, gps_data, attitude_data,
                           gps_df, attitude_df, flight_data, document, kml_files, outcome>>

\* lines 164-169: combined_df = pd.DataFrame(combined_data); a DataFrame built
\* from an empty list has no columns, so combined_df['alt'] on line 167 raises
\* KeyError; otherwise combined_df is returned
FuseEnd ==
    /\ pc = "fuse"
    /\ row > Len(gps_df)
    /\ IF combined_data = <<>>
       THEN Caught("KeyError")
       ELSE /\ flight_data' = DF(combined_data)
            /\ pc' = "check"
            /\ UNCHANGED <<fileIdx, opsLeft, stream, gps_data, attitude_data,
                           gps_df, attitude_df, row, combined_data, document, kml_files,
                           outcome>>

\* lines 379-421: with data, the path and the tour are created and the KML is
\* saved; without, "No valid flight data" is reported
CheckData ==
    /\ pc = "check"
    /\ IF flight_data.kind = "df" /\ flight_data.rows # <<>>
       THEN /\ kml_files' = (fileIdx :> (document \o FlightPath(flight_data.rows, fileIdx)))
                                @@ kml_files
            /\ outcome' = Append(outcome, Report("saved", "none"))
       ELSE /\ outcome' = Append(outcome, Report("novalid", "none"))
            /\ UNCHANGED kml_files
    /\ EndIteration
    /\ UNCHANGED <<opsLeft>>

\* lines 428-440: the listing is exhausted (it held at least one file)
Finish ==
    /\ pc = "loop"
    /\ fileIdx > 1
    /\ pc' = "done"
    /\ UNCHANGED <<fileIdx, opsLeft, stream, gps_data, attitude_data, gps_df,
                   attitude_df, row, combined_data, flight_data, document, kml_files,
                   outcome>>

KmlIdle ==
    /\ fileIdx = 1 /\ pc = "idle" /\ opsLeft = 0
    /\ stream = <<>> /\ gps_data = <<>> /\ attitude_data = <<>>
    /\ gps_df = <<>> /\ attitude_df = <<>> /\ row = 1 /\ combined_data = <<>>
    /\ flight_data = Unset /\ document = <<>> /\ kml_files = <<>> /\ outcome = <<>>

TourIdle == tourN = 0 /\ playlist = <<>> /\ camera_points = 0 /\ tpc = "idle"

SumIdle ==
    /\ csvIdx = 1 /\ spc = "idle" /\ df = [cols |-> {}, rows |-> <<>>]
    /\ flags = <<>> /\ written = {} /\ reports = <<>>

NameIdle ==
    /\ npc = "idle" /\ input_dir = <<>> /\ stemA = <<>> /\ stemB = <<>>
    /\ outA = <<>> /\ outB = <<>>

Init ==
    /\ fileIdx = 1
    /\ pc = "start"
    /\ opsLeft = MaxOps
    /\ stream = <<>> /\ gps_data = <<>> /\ attitude_data = <<>>
    /\ gps_df = <<>> /\ attitude_df = <<>> /\ row = 1 /\ combined_data = <<>>
    /\ flight_data = Unset /\ document = <<>> /\ kml_files = <<>> /\ outcome = <<>>
    /\ TourIdle /\ SumIdle /\ NameIdle

Next ==
    \/ (Start /\ UNCHANGED <<tourVars, sumVars, nameVars>>)
    \/ (BeginFile /\ UNCHANGED <<tourVars, sumVars, nameVars>>)
    \/ (DecoderError /\ UNCHANGED <<tourVars, sumVars, nameVars>>)
    \/ (RecvMsg /\ UNCHANGED <<tourVars, sumVars, nameVars>>)
    \/ (RecvEnd /\ UNCHANGED <<tourVars, sumVars, nameVars>>)
    \/ (FuseStep /\ UNCHANGED <<tourVars, sumVars, nameVars>>)
    \/ (FuseEnd /\ UNCHANGED <<tourVars, sumVars, nameVars>>)
    \/ (CheckData /\ UNCHANGED <<tourVars, sumVars, nameVars>>)
    \/ (Finish /\ UNCHANGED <<tourVars, sumVars, nameVars>>)

Spec == Init /\ [][Next]_vars

----------------------------------------------------------------------------
(* kml.py: _create_fpv_tour and the camera-point statistic on a fused series of
   any length up to MaxN *)

YawSamples == <<-30, 400, 0, 359, 360, -360, 725, NaN>>

PitchSamples == <<200, -200, 0, 90, -90, 45, NaN>>

RollSamples == <<0, 15, -15, NaN, 180>>

\* the fused record at pandas index i of the series: its timestamp is i seconds
TourRow(i) ==
    [timestamp |-> i * 1000000, lat |-> 47, lng |-> 8, alt |-> 120, spd |-> 3,
     gcrs |-> 45, vz |-> 1,
     roll |-> RollSamples[(i % Len(RollSamples)) + 1],
     pitch |-> PitchSamples[(i % Len(PitchSamples)) + 1],
     yaw |-> YawSamples[(i % Len(YawSamples)) + 1]]

TourRows(n) == [k \in 1..n |-> TourRow(k - 1)]

InitTour ==
    /\ tourN \in 0..MaxN
    /\ playlist = <<>>
    /\ camera_points = 0
    /\ tpc = "start"
    /\ KmlIdle /\ SumIdle /\ NameIdle

\* lines 212-316: the tour of the fused series (create_flight_path hands it df
\* when df is not empty; the reduction itself is defined for every length)
CreateFpvTour ==
    /\ tpc = "start"
    /\ playlist' = FpvTour(TourRows(tourN), 0).playlist
    /\ tpc' = "toured"
    /\ UNCHANGED <<tourN, camera_points>>

\* line 410: len(flight_data[::max(1, len(flight_data) // 200)])
CameraPointsStat ==
    /\ tpc = "toured"
    /\ camera_points' = Len(SliceStep(TourRows(tourN), Max2(1, tourN \div 200)))
    /\ tpc' = "done"
    /\ UNCHANGED <<tourN, playlist>>

NextTour ==
    \/ (CreateFpvTour /\ UNCHANGED <<kmlVars, sumVars, nameVars>>)
    \/ (CameraPointsStat /\ UNCHANGED <<kmlVars, sumVars, nameVars>>)

SpecTour == InitTour /\ [][NextTour]_vars

----------------------------------------------------------------------------
(* summary.py: analyze_log *)

\* the columns analyze_log reads
AllColumns ==
    {"TimeUS", "Alt", "Volt", "Curr", "VibeX", "VibeY", "VibeZ", "Roll", "Pitch", "Yaw",
     "NSats", "ThO", "Lat", "Lng", "mavpackettype", "Subsys", "ECode", "FailFlags"}

\* thresholds of lines 104-107; vibration, voltage and current in tenths
VibrationLimit == 300
VoltageLimit == 105
CurrentLimit == 500
SatsLimit == 6

VoltSamples == {104, 105, NaN}

CurrSamples == {500, 501}

NSatsSamples == {5, 6}

VibeSamples == {<<300, 300, 300>>, <<0, 301, NaN>>}

\* the k-th sample row of a CSV
SampleRow(k, volt, curr, nsats, vibe) ==
    [TimeUS |-> k * 1000000, Volt |-> volt, Curr |-> curr, NSats |-> nsats,
     VibeX |-> vibe[1], VibeY |-> vibe[2], VibeZ |-> vibe[3]]

RowsOfLen(n) ==
    {r \in [1..n -> VoltSamples \X CurrSamples \X NSatsSamples \X VibeSamples] : TRUE}

Tables ==
    UNION {{[k \in 1..n |-> SampleRow(k, r[k][1], r[k][2], r[k][3], r[k][4])] :
              r \in RowsOfLen(n)} : n \in 0..MaxRows}

\* what pd.read_csv can return: a log with every column and any rows, or a log
\* that lacks one column
CsvInputs ==
    {[cols |-> AllColumns, rows |-> t] : t \in Tables}
    \cup {[cols |-> AllColumns \ {c}, rows |-> <<SampleRow(1, 105, 500, 6, <<300, 300, 300>>)>>] :
             c \in AllColumns}

\* the sections of analyze_log in program order: the columns each one indexes
\* unconditionally (df[...] raises KeyError on a missing one), the columns that
\* guard it, and the files it writes
Sections ==
    <<[name |-> "summary", lines |-> <<56, 69>>,
       needs |-> {"TimeUS", "Alt", "Volt", "Curr", "VibeX", "VibeY", "VibeZ", "Roll", "Pitch"},
       guard |-> {}, files |-> {"summary.csv"}],
      [name |-> "glossary", lines |-> <<72, 74>>,
       needs |-> {}, guard |-> {}, files |-> {"parameter_glossary.csv"}],
      [name |-> "subsys", lines |-> <<77, 85>>,
       needs |-> {"TimeUS"}, guard |-> {"Subsys", "ECode"}, files |-> {"subsys_ecode_report.csv"}],
      [name |-> "statustext", lines |-> <<88, 90>>,
       needs |-> {"mavpackettype"}, guard |-> {}, files |-> {"status_text_log.csv"}],
      [name |-> "failsafe", lines |-> <<93, 99>>,
       needs |-> {"TimeUS"}, guard |-> {"FailFlags"}, files |-> {"failsafe_report.csv"}],
      [name |-> "anomaly", lines |-> <<102, 108>>,
       needs |-> {"TimeUS", "VibeX", "VibeY", "VibeZ", "Volt", "Curr", "NSats"},
       guard |-> {}, files |-> {"anomaly_flags.csv"}],
      [name |-> "plots", lines |-> <<111, 158>>,
       needs |-> {"TimeUS", "Alt", "ThO", "Lng", "Lat", "Roll", "Pitch", "Yaw",
                  "VibeX", "VibeY", "VibeZ"},
       guard |-> {}, files |-> {"plots"}],
      [name |-> "zip", lines |-> <<161, 168>>,
       needs |-> {}, guard |-> {}, files |-> {"full_export.zip"}]>>

\* the section runs (its `if` guard, when it has one, holds)
SectionRuns(sec, d) == sec.guard \subseteq d.cols

\* the section raises: it indexes a missing column, or (summary, line 57) takes
\* .iloc[-1] of an empty column
SectionRaises(sec, d) ==
    /\ SectionRuns(sec, d)
    /\ \/ ~(sec.needs \subseteq d.cols)
       \/ sec.name = "summary" /\ d.rows = <<>>

\* the exception a raising section raises: line 57 is evaluated first, so with
\* TimeUS present an empty log gives IndexError before any other column is read
RaisedError(sec, d) ==
    IF sec.name = "summary" /\ "TimeUS" \in d.cols /\ d.rows = <<>>
    THEN "IndexError" ELSE "KeyError"

\* index of the first section that raises, Len(Sections) + 1 when none does
FirstRaising(d) ==
    LET bad == {k \in 1..Len(Sections) : SectionRaises(Sections[k], d)}
    IN  IF bad = {} THEN Len(Sections) + 1
        ELSE CHOOSE k \in bad : \A j \in bad : k <= j

\* the files written before the first raising section
FilesWritten(d) ==
    UNION {Sections[k].files : k \in {j \in 1..(FirstRaising(d) - 1) :
                                         SectionRuns(Sections[j], d)}}

\* a comparison of pandas: a missing value (NaN) compares False
Lt(v, limit) == v # NaN /\ v < limit

Gt(v, limit) == v # NaN /\ v > limit

\* a voltage test that also flags the limit itself
LowVoltage_Inclusive(r) == r.Volt # NaN /\ r.Volt <= VoltageLimit

\* line 105
LowVoltage(r) == Lt(r.Volt, VoltageLimit)

\* line 104: df[["VibeX","VibeY","VibeZ"]].max(axis=1), which skips NaN and is NaN
\* for a row of NaNs
RowMax(r) ==
    LET vals == {r.VibeX, r.VibeY, r.VibeZ} \ {NaN}
    IN  IF vals = {} THEN NaN ELSE CHOOSE v \in vals : \A w \in vals : v >= w

\* lines 102-107: one row of the flag table
FlagRow(r) ==
    [TimeUS |-> r.TimeUS,
     HighVibration |-> Gt(RowMax(r), VibrationLimit),
     LowVoltage |-> LowVoltage(r),
     HighCurrent |-> Gt(r.Curr, CurrentLimit),
     GPSLoss |-> Lt(r.NSats, SatsLimit)]

FlagTable(d) == [k \in 1..Len(d.rows) |-> FlagRow(d.rows[k])]

----------------------------------------------------------------------------
(* summary.py: process_directory and analyze_log as a state machine *)

InitSummary ==
    /\ csvIdx = 1
    /\ spc = "start"
    /\ df = [cols |-> {}, rows |-> <<>>]
    /\ flags = <<>>
    /\ written = {}
    /\ reports = <<>>
    /\ KmlIdle /\ TourIdle /\ NameIdle

\* lines 180-185: the glob; with no CSV the runner returns.  As for the BIN
\* files, the listing is revealed as the loop consumes it.
ListCsv ==
    /\ spc = "start"
    /\ spc' \in {"done", "loop"}
    /\ UNCHANGED <<csvIdx, df, flags, written, reports>>

\* lines 187-191 and 52-53: next CSV; analyze_log is called and reads it
ReadCsv ==
    /\ spc = "loop"
    /\ csvIdx <= MaxCsv
    /\ \E d \in CsvInputs : df' = d
    /\ flags' = <<>>
    /\ written' = {}
    /\ spc' = "analyze"
    /\ UNCHANGED <<csvIdx, reports>>

\* line 52: pd.read_csv fails (unreadable or malformed file).  Nothing catches
\* it: the exception leaves process_directory.
ReadFails ==
    /\ spc = "loop"
    /\ csvIdx <= MaxCsv
    /\ reports' = Append(reports, "IOError")
    /\ spc' = "crashed"
    /\ UNCHANGED <<csvIdx, df, flags, written>>

\* lines 55-168: the body of analyze_log.  The first section that raises ends
\* it, and nothing in analyze_log or process_directory (lines 187-191) catches
\* the exception.
AnalyzeLog ==
    /\ spc = "analyze"
    /\ written' = FilesWritten(df)
    /\ flags' = IF "anomaly_flags.csv" \in FilesWritten(df) THEN FlagTable(df) ELSE <<>>
    /\ IF FirstRaising(df) <= Len(Sections)
       THEN /\ reports' = Append(reports, RaisedError(Sections[FirstRaising(df)], df))
            /\ spc' = "crashed"
       ELSE /\ reports' = Append(reports, "ok")
            /\ spc' = "analyzed"
    /\ UNCHANGED <<csvIdx, df>>

\* analyze_log returns; its locals die and the for loop advances
ReturnToLoop ==
    /\ spc = "analyzed"
    /\ df' = [cols |-> {}, rows |-> <<>>]
    /\ flags' = <<>>
    /\ written' = {}
    /\ csvIdx' = csvIdx + 1
    /\ spc' = "loop"
    /\ UNCHANGED reports

\* the glob's list is exhausted (it held at least one file)
EndOfList ==
    /\ spc = "loop"
    /\ csvIdx > 1
    /\ spc' = "done"
    /\ UNCHANGED <<csvIdx, df, flags, written, reports>>

NextSummary ==
    \/ (ListCsv /\ UNCHANGED <<kmlVars, tourVars, nameVars>>)
    \/ (ReadCsv /\ UNCHANGED <<kmlVars, tourVars, nameVars>>)
    \/ (ReadFails /\ UNCHANGED <<kmlVars, tourVars, nameVars>>)
    \/ (AnalyzeLog /\ UNCHANGED <<kmlVars, tourVars, nameVars>>)
    \/ (ReturnToLoop /\ UNCHANGED <<kmlVars, tourVars, nameVars>>)
    \/ (EndOfList /\ UNCHANGED <<kmlVars, tourVars, nameVars>>)

SpecSummary == InitSummary /\ [][NextSummary]_vars

----------------------------------------------------------------------------
(* Output naming: summary.py extract_log_id / process_directory, and kml.py
   process_bin_files.  A string is the sequence of its characters. *)

Digits == {"0", "1", "2", "3", "4", "5", "6", "7", "8", "9"}

\* the pieces file names are built from: "log_", "7", "a", ".bin"
Pieces == {<<"l", "o", "g", "_">>, <<"7">>, <<"a">>, <<".", "b", "i", "n">>}

RECURSIVE NamesOf(_)
NamesOf(n) ==
    IF n = 0 THEN {<<>>}
    ELSE LET shorter == NamesOf(n - 1)
         IN  shorter \cup {x \o q : x \in shorter, q \in Pieces}

\* file names without their extension
Stems == NamesOf(MaxPieces)

InputDirs == {<<"d">>, <<"l", "o", "g", "_", "7">>}

OutRoot == <<"o">>

KmlDir == <<"k">>

\* os.path.join of a directory and a relative name
Join(dir, name) == dir \o <<"/">> \o name

\* index of the last occurrence of character c in s, 0 when there is none
RFind(s, c) ==
    LET at == {k \in 1..Len(s) : s[k] = c}
    IN  IF at = {} THEN 0 ELSE CHOOSE k \in at : \A j \in at : k >= j

\* os.path.basename
Basename(path) == SubSeq(path, RFind(path, "/") + 1, Len(path))

\* os.path.splitext(p)[0]: p is cut at its last dot, unless that dot only has
\* dots between it and the start of the file name
SplitextRoot(path) ==
    LET sep == RFind(path, "/")
        dot == RFind(path, ".")
    IN  IF dot > sep /\ \E k \in (sep + 1)..(dot - 1) : path[k] # "."
        THEN SubSeq(path, 1, dot - 1)
        ELSE path

\* the positions where r"log_(\d{1,})" matches
LogIdMatches(fname) ==
    {k \in 1..(Len(fname) - 4) :
        /\ SubSeq(fname, k, k + 3) = <<"l", "o", "g", "_">>
        /\ fname[k + 4] \in Digits}

\* the end of the run of digits that starts at position k
RECURSIVE DigitRunEnd(_, _)
DigitRunEnd(s, k) ==
    IF k < Len(s) /\ s[k + 1] \in Digits THEN DigitRunEnd(s, k + 1) ELSE k

\* lines 171-177: re.search takes the leftmost match, \d{1,} is greedy
ExtractLogId(fname) ==
    IF LogIdMatches(fname) # {}
    THEN LET k == CHOOSE i \in LogIdMatches(fname) : \A j \in LogIdMatches(fname) : i <= j
         IN  SubSeq(fname, k + 4, DigitRunEnd(fname, k + 4))
    ELSE SplitextRoot(Basename(fname))

\* line 180: glob("*.csv") lists the names that end in .csv and do not start
\* with a dot
CsvListed(stem) == stem # <<>> /\ stem[1] # "."

CsvPath(dir, stem) == Join(dir, stem \o <<".", "c", "s", "v">>)

\* lines 188-189
OutDir(csv_path) == Join(OutRoot, ExtractLogId(csv_path))

\* line 355: every name of the listing that ends in .bin
BinFile(stem) == stem \o <<".", "b", "i", "n">>

\* lines 368-369
KmlPath(bin_file) ==
    Join(KmlDir, <<"F", "P", "V", "_">> \o SplitextRoot(bin_file) \o <<".", "k", "m", "l">>)

InitNames ==
    /\ npc = "start"
    /\ input_dir \in InputDirs
    /\ stemA \in Stems
    /\ stemB \in Stems \ {stemA}
    /\ outA = <<>>
    /\ outB = <<>>
    /\ KmlIdle /\ TourIdle /\ SumIdle

\* summary.py lines 187-190 for two CSV files of input_dir
NameOutDirs ==
    /\ npc = "start"
    /\ CsvListed(stemA) /\ CsvListed(stemB)
    /\ outA' = OutDir(CsvPath(input_dir, stemA))
    /\ outB' = OutDir(CsvPath(input_dir, stemB))
    /\ npc' = "csv"
    /\ UNCHANGED <<input_dir, stemA, stemB>>

\* kml.py lines 364-369 for two BIN files of ./logs/bin
NameKmlPaths ==
    /\ npc = "start"
    /\ outA' = KmlPath(BinFile(stemA))
    /\ outB' = KmlPath(BinFile(stemB))
    /\ npc' = "bin"
    /\ UNCHANGED <<input_dir, stemA, stemB>>

NextNames ==
    \/ (NameOutDirs /\ UNCHANGED <<kmlVars, tourVars, sumVars>>)
    \/ (NameKmlPaths /\ UNCHANGED <<kmlVars, tourVars, sumVars>>)

SpecNames == InitNames /\ [][NextNames]_vars

----------------------------------------------------------------------------
(* Properties of parse_flight_data and process_bin_files, checked under Spec *)

\* the position part of a fused record
PositionOf(f) ==
    [timestamp |-> f.timestamp, lat |-> f.lat, lng |-> f.lng, alt |-> f.alt,
     spd |-> f.spd, gcrs |-> f.gcrs, vz |-> f.vz]

Timestamps(s) == [k \in 1..Len(s) |-> s[k].timestamp]

FusedPositions == [k \in 1..Len(combined_data) |-> PositionOf(combined_data[k])]

\* C1: the fused series is never longer than the position series handed to the
\* fusion loop, every fused record carries the timestamp and position fields of
\* one of its samples, and no sample is emitted more often than it occurs.
C1_FusedFromPositions ==
    /\ Len(combined_data) <= Len(gps_df)
    /\ \A k \in 1..Len(combined_data) :
         /\ \E j \in 1..Len(gps_df) : FusedPositions[k] = gps_df[j]
         /\ Count(FusedPositions, FusedPositions[k]) <= Count(gps_df, FusedPositions[k])
    /\ flight_data.kind = "df" => flight_data.rows = combined_data

\* the fusion loop has run over three positions and dropped one of them
C1_Witness ==
    /\ pc = "check"
    /\ Len(gps_df) = 3
    /\ Len(flight_data.rows) = 2

\* the orientation samples a fused record may have been joined with
MatchesOf(f) ==
    {j \in 1..Len(attitude_df) :
        /\ attitude_df[j].roll = f.roll
        /\ attitude_df[j].pitch = f.pitch
        /\ attitude_df[j].yaw = f.yaw
        /\ Abs(attitude_df[j].timestamp - f.timestamp) < Tolerance}

\* the position samples the fusion loop has handled whose nearest orientation
\* sample is 1.0 s away or further
Unmatched ==
    {j \in 1..(row - 1) :
        \A k \in 1..Len(attitude_df) :
            Abs(attitude_df[k].timestamp - gps_df[j].timestamp) >= Tolerance}

\* C2: every fused record joins its position sample with an orientation sample
\* strictly less than 1.0 s away, a position sample whose nearest orientation
\* sample is 1.0 s away or further is not emitted, and positions at 0, 1, 2 s
\* with one orientation sample at 0.4 s give fused records for 0 s and 1 s only.
C2_WithinTolerance ==
    pc \in {"fuse", "check"} =>
        /\ \A k \in 1..Len(combined_data) : MatchesOf(combined_data[k]) # {}
        /\ \A j \in Unmatched :
             \A k \in 1..Len(combined_data) :
                 combined_data[k].timestamp # gps_df[j].timestamp
        /\ Len(combined_data) = (row - 1) - Cardinality(Unmatched)
        /\ (/\ Timestamps(gps_df) = <<0, 1000000, 2000000>>
            /\ Timestamps(attitude_df) = <<400000>>
            /\ row = 4) => Timestamps(combined_data) = <<0, 1000000>>

\* the example of the claim has been fused
C2_Witness ==
    /\ pc = "fuse"
    /\ row = 4
    /\ Timestamps(gps_df) = <<0, 1000000, 2000000>>
    /\ Timestamps(attitude_df) = <<400000>>
    /\ Timestamps(combined_data) = <<0, 1000000>>

\* C3: with both streams present, parse_flight_data ends normally whatever the
\* matches are: once the fusion loop is over it returns the fused records, an
\* empty series when no position sample matched.  (Stated of the code, this is
\* violated: the summary line 167 raises KeyError on the empty series.)
C3_UnmatchedIsNoError ==
    [][(pc = "fuse" /\ attitude_df # <<>> /\ row > Len(gps_df)) =>
          /\ pc' = "check"
          /\ flight_data' = DF(combined_data)
          /\ outcome' = outcome]_vars

\* the record kinds of the demultiplexer's contract
IsPositionRecord(m) ==
    /\ m.mavpackettype = "GPS"
    /\ "Lat" \in DOMAIN m /\ "Lng" \in DOMAIN m /\ "Alt" \in DOMAIN m
    /\ ~(m.Lat = 0) /\ ~(m.Lng = 0)

IsOrientationRecord(m) ==
    /\ m.mavpackettype = "AHR2"
    /\ "Roll" \in DOMAIN m /\ "Pitch" \in DOMAIN m /\ "Yaw" \in DOMAIN m

\* C5: while the file is read, gps_data is exactly the GPS records with Lat,
\* Lng and Alt and nonzero Lat and Lng, in input order, attitude_data exactly the
\* AHR2 records with Roll, Pitch and Yaw, in input order; every other record is
\* in neither.
C5_Demultiplex ==
    pc = "recv" =>
        /\ gps_data = GpsRows(SelectSeq(stream, IsPositionRecord))
        /\ attitude_data = AttRows(SelectSeq(stream, IsOrientationRecord))
        /\ Len(gps_data) + Len(attitude_data)
              = Len(stream) - Cardinality({k \in 1..Len(stream) :
                                             /\ ~IsPositionRecord(stream[k])
                                             /\ ~IsOrientationRecord(stream[k])})

\* four records read: one of each kind kept, a zero-coordinate GPS record
\* and a record of another kind dropped
C5_Witness ==
    /\ pc = "recv"
    /\ Len(stream) = 4
    /\ Len(gps_data) = 1
    /\ Len(attitude_data) = 1
    /\ \E k \in 1..4 : stream[k].mavpackettype = "GPS" /\ ~IsPositionRecord(stream[k])
    /\ \E k \in 1..4 : stream[k].mavpackettype = "ATT"

StreamMissing == gps_data = <<>> \/ attitude_data = <<>>

\* C6: fusion never starts with an empty position or orientation sequence; when
\* one is empty at the end of the stream parse_flight_data has returned None
\* without fusing and the document holds no path and no tour; the runner then
\* reports the file as having no valid data, saves no KML, records no error and
\* stands at the head of its loop for the next file.
C6_MissingStreamAborts ==
    /\ [](pc = "fuse" => ~StreamMissing)
    /\ []((pc = "check" /\ StreamMissing) =>
             /\ flight_data = NoneDF
             /\ combined_data = <<>>
             /\ document = KmlStructure(fileIdx)
             /\ fileIdx \notin DOMAIN kml_files)
    /\ [][(pc = "check" /\ StreamMissing) =>
             /\ outcome' = Append(outcome, Report("novalid", "none"))
             /\ kml_files' = kml_files
             /\ pc' = "loop"
             /\ fileIdx' = fileIdx + 1]_vars

\* a file without usable telemetry was reported, and the next file was saved
C6_Witness ==
    /\ Len(outcome) = 2
    /\ outcome[1] = Report("novalid", "none")
    /\ outcome[2] = Report("saved", "none")
    /\ DOMAIN kml_files = {2}

\* a camera waypoint of a playlist
IsFlyTo(e) == e.tag = "gx:FlyTo"

\* the orientation a row carries
Orientation(r) == <<r.roll, r.pitch, r.yaw>>

\* the distance in time between an orientation sample and a timestamp
Distance(j, t) == Abs(attitude_df[j].timestamp - t)

\* the orientation samples nearest in time to t
Nearest(t) ==
    {j \in 1..Len(attitude_df) : \A i \in 1..Len(attitude_df) : Distance(j, t) <= Distance(i, t)}

\* C13: the roll, pitch and yaw of every fused record are those of an
\* orientation sample that is nearest in time to the record's position sample
\* among all the sorted orientation samples: none is strictly nearer.
C13_NearestNeighbour ==
    pc \in {"fuse", "check"} =>
        \A k \in 1..Len(combined_data) :
            \E j \in Nearest(combined_data[k].timestamp) :
                Orientation(attitude_df[j]) = Orientation(combined_data[k])

\* a position at 1 s, orientation samples at 0.4 s and 1 s, both within the
\* tolerance: the record carries the second
C13_Witness ==
    /\ pc = "fuse"
    /\ Timestamps(gps_df) = <<1000000>>
    /\ Timestamps(attitude_df) = <<400000, 1000000>>
    /\ Len(combined_data) = 1
    /\ Orientation(combined_data[1]) = Orientation(attitude_df[2])
    /\ Orientation(combined_data[1]) # Orientation(attitude_df[1])

Ascending(s) == \A i, j \in 1..Len(s) : i < j => s[i].timestamp <= s[j].timestamp

SameRows(s, t) ==
    /\ Len(s) = Len(t)
    /\ \A k \in 1..Len(s) : Count(s, s[k]) = Count(t, s[k])

\* the position sample has an orientation sample within the tolerance
HasMatch(p) == \E j \in 1..Len(attitude_df) : Distance(j, p.timestamp) < Tolerance

\* C14: whatever order the decoder delivered the records in, the fusion loop
\* works on the position and the orientation samples sorted by ascending
\* timestamp, and the fused records are, in ascending timestamp order, the
\* matched ones of the sorted position samples handled so far, in their order;
\* the series returned is in that order too.
C14_FusedInOrder ==
    (pc = "fuse" \/ (pc = "check" /\ flight_data.kind = "df")) =>
        /\ Ascending(gps_df) /\ SameRows(gps_df, gps_data)
        /\ Ascending(attitude_df) /\ SameRows(attitude_df, attitude_data)
        /\ Ascending(combined_data)
        /\ FusedPositions = SelectSeq(SubSeq(gps_df, 1, row - 1), HasMatch)
        /\ flight_data.kind = "df" => Ascending(flight_data.rows)

\* the decoder delivered the position at 1 s before the position at 0 s; the
\* fused records are those of 0 s and 1 s, in this order
C14_Witness ==
    /\ pc = "check"
    /\ Timestamps(gps_data) = <<1000000, 0>>
    /\ flight_data.kind = "df"
    /\ Timestamps(flight_data.rows) = <<0, 1000000>>

\* the first of the orientation samples nearest in time to t
FirstNearest(t) == CHOOSE j \in Nearest(t) : \A i \in Nearest(t) : j <= i

\* what the fusion of position sample p with the sorted orientation samples is
FusionOf(p) ==
    IF Distance(FirstNearest(p.timestamp), p.timestamp) < Tolerance
    THEN <<Orientation(attitude_df[FirstNearest(p.timestamp)])>>
    ELSE <<>>

\* C17: the fusion breaks ties for the first: every fused record carries the
\* orientation of the first of the sorted orientation samples nearest to its
\* position sample, and each step of the fusion loop appends what the sorted
\* position and orientation samples determine, so that two runs on the same
\* sorted samples build the same fused series.
C17_TieBreakFirst ==
    /\ [](pc \in {"fuse", "check"} =>
             \A k \in 1..Len(combined_data) :
                 Orientation(combined_data[k])
                     = Orientation(attitude_df[FirstNearest(combined_data[k].timestamp)]))
    /\ [][(pc = "fuse" /\ row <= Len(gps_df)) =>
             /\ pc' = "fuse"
             /\ row' = row + 1
             /\ gps_df' = gps_df /\ attitude_df' = attitude_df
             /\ [k \in 1..Len(combined_data') |-> Orientation(combined_data'[k])]
                  = [k \in 1..Len(combined_data) |-> Orientation(combined_data[k])]
                        \o FusionOf(gps_df[row])]_vars

\* a position at 1 s with orientation samples at 0.5 s and 1.5 s, equally
\* near: the record carries the orientation of 0.5 s
C17_Witness ==
    /\ pc = "fuse"
    /\ Timestamps(gps_df) = <<1000000>>
    /\ Timestamps(attitude_df) = <<500000, 1500000>>
    /\ Len(combined_data) = 1
    /\ Orientation(combined_data[1]) = Orientation(attitude_df[1])
    /\ Orientation(combined_data[1]) # Orientation(attitude_df[2])

\* the elements of a saved document with the given tag
WithTag(doc, tag) == {k \in 1..Len(doc) : doc[k].tag = tag}

\* C18: every file is processed with a fresh document and fresh record lists,
\* whatever happened to the files before it; the document saved for a file
\* holds, after that file's name, description and style, exactly one flight
\* path and one tour, both built from the fused records of that file, and the
\* documents saved for earlier files are not touched.
C18_NoSharedState ==
    /\ [](pc \in {"recv", "fuse", "check"} => document = KmlStructure(fileIdx))
    /\ []((pc = "recv" /\ stream = <<>>) =>
             /\ gps_data = <<>> /\ attitude_data = <<>>
             /\ combined_data = <<>> /\ flight_data = Unset)
    /\ [](\A f \in DOMAIN kml_files :
             LET doc == kml_files[f]
             IN  /\ Len(doc) = 5
                 /\ SubSeq(doc, 1, 3) = KmlStructure(f)
                 /\ Cardinality(WithTag(doc, "Folder")) = 1
                 /\ Cardinality(WithTag(doc, "gx:Tour")) = 1
                 /\ doc[4].flight = f /\ doc[5].flight = f)
    /\ [][(pc = "check" /\ flight_data.kind = "df" /\ flight_data.rows # <<>>) =>
             /\ flight_data.rows = combined_data
             /\ DOMAIN kml_files' = DOMAIN kml_files \cup {fileIdx}
             /\ \A f \in DOMAIN kml_files : kml_files'[f] = kml_files[f]
             /\ LET doc == kml_files'[fileIdx]
                     folder == doc[CHOOSE k \in WithTag(doc, "Folder") : TRUE]
                     tour == doc[CHOOSE k \in WithTag(doc, "gx:Tour") : TRUE]
                 IN  /\ folder.coordinates
                          = [k \in 1..Len(combined_data) |->
                               <<combined_data[k].lng, combined_data[k].lat,
                                 combined_data[k].alt>>]
                     /\ \A n \in 1..Len(tour.playlist) :
                          IsFlyTo(tour.playlist[n]) =>
                              \E k \in 1..Len(combined_data) :
                                  /\ combined_data[k].timestamp = tour.playlist[n].timestamp
                                  /\ CameraHeading(combined_data[k]) = tour.playlist[n].heading
                     /\ Cardinality({n \in 1..Len(tour.playlist) : IsFlyTo(tour.playlist[n])})
                          = Len(combined_data)]_vars

\* a first file the decoder failed on, then a second file saved with its one
\* flight path and one tour
C18_Witness ==
    /\ Len(outcome) = 2
    /\ outcome[1].status = "error"
    /\ outcome[2] = Report("saved", "none")
    /\ DOMAIN kml_files = {2}
    /\ Cardinality(WithTag(kml_files[2], "gx:Tour")) = 1
    /\ kml_files[2][4].flight = 2

----------------------------------------------------------------------------
(* Properties of _create_fpv_tour, checked under SpecTour *)

\* the camera waypoints of the playlist
FlyTos == SelectSeq(playlist, IsFlyTo)

\* C4: the path reduction produces at most 200 camera waypoints for a fused
\* series of any length, and exactly the 200 at indices 0, 5, ..., 995 for a
\* series of 1000.  (Stated of the code, this is violated: a series of 201 to
\* 399 records has step 1 and keeps every record.)
C4_AtMost200Waypoints ==
    /\ tpc \in {"toured", "done"} =>
         /\ Len(FlyTos) <= 200
         /\ tourN = 1000 =>
              /\ Len(FlyTos) = 200
              /\ \A k \in 1..200 : FlyTos[k].timestamp = TourRow(5 * (k - 1)).timestamp
    /\ tpc = "done" => camera_points <= 200

\* the fused record a camera waypoint was made from: row i of the series is
\* stamped i seconds
SourceRow(f) == TourRow(f.timestamp \div 1000000)

\* C11: once the tour is built, the heading of every camera waypoint is the
\* yaw of its fused record reduced modulo 360: it lies in 0..359 and differs
\* from the yaw by a whole number of turns, for negative yaw and for yaw of 360
\* or more alike (-30 gives 330, 400 gives 40); a missing yaw gives heading 0.
C11_HeadingNormalized ==
    tpc \in {"toured", "done"} =>
        LET fs == FlyTos
        IN  \A k \in 1..Len(fs) :
              LET yaw == SourceRow(fs[k]).yaw
                  heading == fs[k].heading
              IN  /\ heading \in 0..359
                  /\ yaw = NaN => heading = 0
                  /\ yaw # NaN => \E q \in -3..3 : yaw = 360 * q + heading
                  /\ yaw = -30 => heading = 330
                  /\ yaw = 400 => heading = 40

\* a tour of eight waypoints: yaw -30, yaw 400 and a missing yaw among them
C11_Witness ==
    /\ tpc = "toured"
    /\ tourN = 8
    /\ Len(FlyTos) = 8
    /\ SourceRow(FlyTos[1]).yaw = -30 /\ FlyTos[1].heading = 330
    /\ SourceRow(FlyTos[2]).yaw = 400 /\ FlyTos[2].heading = 40
    /\ SourceRow(FlyTos[8]).yaw = NaN /\ FlyTos[8].heading = 0

\* C12: once the tour is built, the tilt of every camera waypoint is 90 plus
\* the pitch of its fused record, clamped into 0..180: 180 for a pitch of 90 or
\* more, 0 for a pitch of -90 or less, 90 + pitch in between (90 for pitch 0;
\* a missing pitch counts as 0).
C12_TiltClamped ==
    tpc \in {"toured", "done"} =>
        LET fs == FlyTos
        IN  \A k \in 1..Len(fs) :
              LET p == SourceRow(fs[k]).pitch
                  tilt == fs[k].tilt
              IN  /\ tilt \in 0..180
                  /\ p = NaN => tilt = 90
                  /\ (p # NaN /\ p >= 90) => tilt = 180
                  /\ (p # NaN /\ p <= -90) => tilt = 0
                  /\ (p # NaN /\ p > -90 /\ p < 90) => tilt = 90 + p

\* a tour of seven waypoints: pitch 200, pitch -200 and pitch 0 among them
C12_Witness ==
    /\ tpc = "toured"
    /\ tourN = 7
    /\ SourceRow(FlyTos[1]).pitch = 200 /\ FlyTos[1].tilt = 180
    /\ SourceRow(FlyTos[2]).pitch = -200 /\ FlyTos[2].tilt = 0
    /\ SourceRow(FlyTos[3]).pitch = 0 /\ FlyTos[3].tilt = 90

\* C15: the camera waypoints are the fused records at indices 0, s, 2s, ...
\* below N, s being N div 200 or 1 if that is 0, in that order and with none
\* left out; a non-empty series always gives its first record, and only an
\* empty series gives no waypoint.
C15_RetainedIndices ==
    tpc \in {"toured", "done"} =>
        LET fs == FlyTos
            K == Len(fs)
            s == IF tourN \div 200 >= 1 THEN tourN \div 200 ELSE 1
        IN  /\ \A k \in 1..K : /\ (k - 1) * s < tourN
                                /\ fs[k].timestamp = TourRow((k - 1) * s).timestamp
            /\ K * s >= tourN
            /\ tourN > 0 => (K >= 1 /\ fs[1].timestamp = TourRow(0).timestamp)
            /\ K = 0 => tourN = 0

\* a series of 401 records is reduced with step 2 to the 201 records at the
\* even indices, the last at index 400
C15_Witness ==
    /\ tpc = "toured"
    /\ tourN = 401
    /\ Len(FlyTos) = 201
    /\ FlyTos[2].timestamp = TourRow(2).timestamp
    /\ FlyTos[201].timestamp = TourRow(400).timestamp

IsWait(e) == e.tag = "gx:Wait" /\ e.duration = "0.5"

\* C16: the playlist holds the camera waypoints in order, numbered 0, 1, 2,
\* ..., the first with duration 3.0 and every other with 0.8, and nothing else
\* but pauses of 0.5; a pause follows waypoint i directly exactly when i > 0
\* and i is a multiple of 20, so that K >= 1 waypoints come with (K - 1) div 20
\* pauses, none of them before or right after the first waypoint.
C16_PlaylistTiming ==
    tpc \in {"toured", "done"} =>
        LET fs == FlyTos
            K == Len(fs)
            L == Len(playlist)
        IN  /\ \A n \in 1..L : IsFlyTo(playlist[n]) \/ IsWait(playlist[n])
            /\ \A k \in 1..K :
                 /\ fs[k].i = k - 1
                 /\ fs[k].duration = (IF k = 1 THEN "3.0" ELSE "0.8")
                 /\ k > 1 => fs[k - 1].timestamp < fs[k].timestamp
            /\ \A n \in 1..L :
                 IF IsFlyTo(playlist[n])
                 THEN (n < L /\ IsWait(playlist[n + 1]))
                          <=> (playlist[n].i > 0 /\ playlist[n].i % 20 = 0)
                 ELSE n > 1 /\ IsFlyTo(playlist[n - 1])
            /\ K >= 1 => L - K = (K - 1) \div 20
            /\ K = 0 => L = 0
            /\ L >= 1 => IsFlyTo(playlist[1])
            /\ L >= 2 => IsFlyTo(playlist[2])

\* 41 waypoints: pauses after waypoint 20 and after waypoint 40, and no other
C16_Witness ==
    /\ tpc = "toured"
    /\ Len(FlyTos) = 41
    /\ Len(playlist) = 43
    /\ playlist[21].i = 20 /\ IsWait(playlist[22])
    /\ playlist[42].i = 40 /\ IsWait(playlist[43])
    /\ playlist[1].duration = "3.0" /\ playlist[2].duration = "0.8"

----------------------------------------------------------------------------
(* Properties of process_directory and analyze_log, checked under SpecSummary *)

\* C7: a failure while one log is processed does not abort the batch: the
\* runner is never ended by it, and goes on with the files that follow.
\* (Stated of process_directory, this is violated: it has no try/except, so an
\* exception of analyze_log ends the run with the later CSVs unprocessed.)
C7_FailureDoesNotAbortBatch == spc # "crashed"

\* the numeric columns the claim names
OptionalNumeric ==
    {"Volt", "Curr", "NSats", "VibeX", "VibeY", "VibeZ", "Roll", "Pitch", "Alt", "ThO"}

\* C9: a log that lacks only numeric columns is analysed without error: the
\* entries that need the missing column are omitted and the remaining sections
\* (glossary, status text, archive) are still written.
\* (Stated of the code, this is violated: df["Volt"] raises KeyError.)
C9_AbsentColumnIsNoError ==
    (/\ spc \in {"analyzed", "crashed"}
     /\ df.rows # <<>>
     /\ df.cols # AllColumns
     /\ AllColumns \ df.cols \subseteq OptionalNumeric) =>
        /\ spc = "analyzed"
        /\ {"parameter_glossary.csv", "status_text_log.csv", "full_export.zip"}
              \subseteq written

\* C10: the flag table has one row per sample row, keyed by the same TimeUS;
\* Low Voltage is true iff Volt < 10.5 (false at 10.5), High Current iff
\* Curr > 50, GPS Loss iff NSats < 6, High Vibration iff the largest of VibeX,
\* VibeY, VibeZ exceeds 30.
C10_AnomalyFlags ==
    spc = "analyzed" =>
        /\ Len(flags) = Len(df.rows)
        /\ \A k \in 1..Len(df.rows) :
             LET r == df.rows[k]
                 f == flags[k]
             IN  /\ f.TimeUS = r.TimeUS
                 /\ f.LowVoltage <=> (r.Volt # NaN /\ r.Volt < 105)
                 /\ (r.Volt = 105 => ~f.LowVoltage)
                 /\ f.HighCurrent <=> (r.Curr # NaN /\ r.Curr > 500)
                 /\ f.GPSLoss <=> (r.NSats # NaN /\ r.NSats < 6)
                 /\ f.HighVibration <=>
                      \E v \in {r.VibeX, r.VibeY, r.VibeZ} : v # NaN /\ v > 300

\* a two-row log: 10.4 V in the first row, exactly 10.5 V in the second
C10_Witness ==
    /\ spc = "analyzed"
    /\ Len(df.rows) = 2
    /\ df.rows[1].Volt = 104 /\ flags[1].LowVoltage
    /\ df.rows[2].Volt = 105 /\ ~flags[2].LowVoltage
    /\ flags[2].TimeUS = 2000000

----------------------------------------------------------------------------
(* Properties of the output naming, checked under SpecNames *)

\* C8: two distinct input files of a batch are never given the same output
\* location: distinct CSV paths get distinct output directories, distinct BIN
\* files get distinct KML paths.
\* (Stated of the code, this is violated: log_7.csv and log_7a.csv both go to
\* <outroot>/7.)
C8_DisjointOutputs == npc \in {"csv", "bin"} => outA # outB

====
